---------------------------- MODULE Spec2Model ----------------------------
(***************************************************************************)
(* A model of gevel's GiST index inspector (src/src/gist.rs, src/src/lib.rs)*)
(*                                                                         *)
(* The index is a store of slotted pages.  get_tree, stats and dump_tree   *)
(* walk it depth first from the root page; every activation of the         *)
(* recursive function is a frame on an explicit call stack, so that the    *)
(* buffers held during the walk and the walk's termination are visible.    *)
(* The page-level functions (slot count, slot lookup, free space, occupied *)
(* fraction) are operators, probed on single pages by SpecPage.            *)
(***************************************************************************)
EXTENDS Integers, Sequences, FiniteSets, TLC

VARIABLES
    store,      \* the index file: page number -> page (never written)
    op,         \* the operation in progress or last finished
    max_level,  \* its max_level argument: Option<usize>
    pc,         \* "idle", "running", "done", "overflow" or "probe"
    stack,      \* the call stack of the recursive walk, root activation first
    stats,      \* the Stats accumulator of stats()
    tree,       \* Option<IndexTreeNode>: what get_tree returned
    out,        \* the lines dump_tree has written to the formatter
    pinned,     \* page number -> buffers of that page acquired and not released
    acquired,   \* number of Buffer::new calls of the current operation
    released,   \* number of Buffer drops of the current operation
    probe       \* SpecPage: the last page-level function applied and its result

vars == <<store, op, max_level, pc, stack, stats, tree, out, pinned,
          acquired, released, probe>>

---------------------------------------------------------------------------
(* Bounds of the model *)

\* highest page number of the index file
MaxPage == 2
\* most slots on one page
MaxSlots == 2
\* largest finite max_level argument
MaxDepthBound == 2
\* activations the call stack can hold before the process overflows its stack
MaxStack == 5

---------------------------------------------------------------------------
(* Constants of the storage format *)

BLCKSZ == 8192
MAXIMUM_ALIGNOF == 8
\* size_of::<PageHeaderData>() and offset_of!(PageHeaderData, pd_linp)
SizeOfPageHeaderData == 24
\* size_of::<ItemIdData>()
SizeOfItemIdData == 4
\* size_of::<GISTPageOpaqueData>()
SizeOfGISTPageOpaqueData == 16
F_LEAF == 1
GIST_ROOT_BLKNO == 0
FirstOffsetNumber == 1
\* 0xFFFFFFFF; TLC's integers are 32 bit signed, so the model holds the
\* block number in its two's complement reading
InvalidBlockNumber == -1

\* (x + MAXIMUM_ALIGNOF - 1) & !(MAXIMUM_ALIGNOF - 1)
MaxAlign(x) == ((x + (MAXIMUM_ALIGNOF - 1)) \div MAXIMUM_ALIGNOF) * MAXIMUM_ALIGNOF

PAGE_SIZE == BLCKSZ - MaxAlign(SizeOfPageHeaderData + SizeOfItemIdData)

\* Option<T>: None is the empty sequence, Some(x) the sequence <<x>>
None == << >>
Some(x) == <<x>>
IsSome(o) == Len(o) = 1
Unwrap(o) == o[1]

Pages == 0..MaxPage

---------------------------------------------------------------------------
(* Page View *)

\* PageGetMaxOffsetNumber
page_max_offset_number(page) ==
    IF page.pd_lower <= SizeOfPageHeaderData
    THEN 0
    ELSE (page.pd_lower - SizeOfPageHeaderData) \div SizeOfItemIdData

\* Values a read of the line pointer array past its last slot can yield:
\* whatever bytes lie in the hole or in the item area of the page.
GarbageItemIds == {[lp_off |-> 0], [lp_off |-> BLCKSZ - 1]}

\* The outcomes of page_get_item_id(page, offset).  The slice is built with
\* length `offset` without a check against the slot count, so indexing it at
\* offset - 1 succeeds for every offset >= 1; offset 0 panics (offset - 1
\* underflows, or indexes the empty slice).
page_get_item_id(page, offset) ==
    IF offset = 0
    THEN {[kind |-> "panic"]}
    ELSE IF offset <= Len(page.pd_linp)
         THEN {[kind |-> "ok", iid |-> page.pd_linp[offset]]}
         ELSE {[kind |-> "ok", iid |-> g] : g \in GarbageItemIds}

\* the slot the walks read: they only ask for positions 1..=max_offset
item_id(page, i) == (CHOOSE r \in page_get_item_id(page, i) : TRUE).iid

\* PageGetItem: the item stored at the slot's byte offset
page_get_item(page, iid) == page.items[iid.lp_off]

\* (bi_hi << 16) | bi_lo
item_ptr_get_blk_num(tuple) == tuple.bi_hi * 65536 + tuple.bi_lo

\* GistTupleIsInvalid
is_invalid(tuple) == tuple.invalid

\* PageGetFreeSpace: the hole between the slot table and the items, less one
\* new slot, 0 when not even a slot fits
PageGetFreeSpace(page) ==
    LET space == page.pd_upper - page.pd_lower
    IN  IF space < SizeOfItemIdData THEN 0 ELSE space - SizeOfItemIdData

TupleSizeSwapped(page) == PageGetFreeSpace(page) - PAGE_SIZE

\* let tuple_size = PAGE_SIZE as u64 - page.free_space() as u64;
\* a negative value stands for the wrapped difference 2^64 + (a - b)
TupleSize(page) == PAGE_SIZE - PageGetFreeSpace(page)

\* IndexTreeNode::occupied, the f64 quotient kept as numerator and denominator
occupied(free_space) == [num |-> PAGE_SIZE - free_space, den |-> PAGE_SIZE]

\* GistPage::is_leaf / gist_page_is_leaf
GistPage_is_leaf(page) == page.flags = F_LEAF

\* GistPage::right_link
GistPage_right_link(page) == page.rightlink

---------------------------------------------------------------------------
(* The index files the walks are run on *)

\* An initialised GiST page holding `tuples`: the slot table grows up from the
\* header, the items grow down from the opaque region at the end of the block.
GistPage(flags, rightlink, tuples) ==
    LET n == Len(tuples)
        special == BLCKSZ - SizeOfGISTPageOpaqueData
        off(i) == special - i * (2 * MAXIMUM_ALIGNOF)
    IN  [pd_lower   |-> SizeOfPageHeaderData + n * SizeOfItemIdData,
         pd_upper   |-> off(n),
         pd_special |-> special,
         flags      |-> flags,
         rightlink  |-> rightlink,
         pd_linp    |-> [i \in 1..n |-> [lp_off |-> off(i)]],
         items      |-> [o \in {off(i) : i \in 1..n} |->
                            tuples[CHOOSE i \in 1..n : off(i) = o]]]

\* the root has no right sibling; the other pages are chained by number
RightLinkOf(p) ==
    IF p = GIST_ROOT_BLKNO \/ p = MaxPage THEN InvalidBlockNumber ELSE p + 1

\* a leaf entry: a heap location; the entries at odd slots carry the bytes
\* that would read as the invalid marker on an internal page
LeafTuple(i) == [bi_hi |-> 0, bi_lo |-> i, invalid |-> (i % 2 = 1)]

\* an internal entry: a downlink to page c
Downlink(c, invalid) == [bi_hi |-> 0, bi_lo |-> c, invalid |-> invalid]

\* Where a page hangs in the tree: its parent, its slot there, and whether
\* that downlink is marked invalid.  NoParent: the page is not in the tree.
NoParent == [parent |-> InvalidBlockNumber, slot |-> 0, invalid |-> FALSE]

Attachments(flagsets) ==
    [Pages \ {GIST_ROOT_BLKNO} ->
        {NoParent} \cup
        {[parent |-> q, slot |-> s, invalid |-> b] :
            q \in Pages, s \in 1..MaxSlots, b \in flagsets}]

Attached(att, p) == p # GIST_ROOT_BLKNO /\ att[p] # NoParent

RECURSIVE ClimbsToRoot(_, _, _)
ClimbsToRoot(att, p, fuel) ==
    \/ p = GIST_ROOT_BLKNO
    \/ /\ fuel > 0
       /\ att[p] # NoParent
       /\ ClimbsToRoot(att, att[p].parent, fuel - 1)

ValidAttachment(att) ==
    /\ \A p \in DOMAIN att : Attached(att, p) => ClimbsToRoot(att, p, MaxPage)
    /\ \A p, q \in DOMAIN att :
          (p # q /\ Attached(att, p) /\ Attached(att, q))
             => ~(att[p].parent = att[q].parent /\ att[p].slot = att[q].slot)
    /\ \A p \in DOMAIN att :
          (Attached(att, p) /\ att[p].slot > 1)
             => \E q \in DOMAIN att :
                   /\ att[q].parent = att[p].parent
                   /\ att[q].slot = att[p].slot - 1

ChildrenOf(att, q) == {p \in DOMAIN att : Attached(att, p) /\ att[p].parent = q}

\* which pages are leaves: a page with children is internal, a page outside
\* the tree is an empty leaf
LeavesFor(att) ==
    {k \in [Pages -> BOOLEAN] :
        \A p \in Pages :
            /\ ChildrenOf(att, p) # {} => ~k[p]
            /\ (p # GIST_ROOT_BLKNO /\ ~Attached(att, p)) => k[p]}

\* the entries on leaf page p: the leaves of one index differ in their fill,
\* and `shift` moves the fills round the pages
LeafSlots(att, p, shift) ==
    IF p # GIST_ROOT_BLKNO /\ ~Attached(att, p)
    THEN 0
    ELSE (p + shift) % (MaxSlots + 1)

TreeStore(att, leaf, shift) ==
    [p \in Pages |->
        IF leaf[p]
        THEN GistPage(F_LEAF, RightLinkOf(p),
                 [i \in 1..LeafSlots(att, p, shift) |-> LeafTuple(i)])
        ELSE GistPage(0, RightLinkOf(p),
                 [i \in 1..Cardinality(ChildrenOf(att, p)) |->
                     LET c == CHOOSE c \in ChildrenOf(att, p) : att[c].slot = i
                     IN  Downlink(c, att[c].invalid)])]

TreeStoresWith(flagsets, shifts) ==
    UNION {{TreeStore(att, leaf, shift) : leaf \in LeavesFor(att), shift \in shifts} :
              att \in {a \in Attachments(flagsets) : ValidAttachment(a)}}

\* every tree over the pages, any downlink marked invalid or not
TreeStores == TreeStoresWith(BOOLEAN, 0..MaxSlots)

\* s with the downlink in slot i of page p pointing to page c instead
Redirect(s, p, i, c) ==
    LET o == s[p].pd_linp[i].lp_off
    IN  [s EXCEPT ![p].items[o].bi_lo = c]

\* a tree with one downlink corrupted: a page reached twice, or a cycle
CorruptStores ==
    UNION {{Redirect(s, e[1], e[2], e[3]) :
               e \in {x \in Pages \X (1..MaxSlots) \X Pages :
                        /\ s[x[1]].flags # F_LEAF
                        /\ x[2] <= Len(s[x[1]].pd_linp)
                        /\ item_ptr_get_blk_num(
                              page_get_item(s[x[1]], s[x[1]].pd_linp[x[2]])) # x[3]}} :
              s \in TreeStoresWith({FALSE}, {0})}

Stores == TreeStores \cup CorruptStores

---------------------------------------------------------------------------
(* Buffers: a scoped acquisition of one page *)

\* Buffer::new: ReadBuffer
Buffer_new(pins, blk) == [pins EXCEPT ![blk] = @ + 1]

Buffer_leak(pins, blk) == pins

\* Drop for Buffer: ReleaseBuffer
Buffer_drop(pins, blk) == [pins EXCEPT ![blk] = @ - 1]

---------------------------------------------------------------------------
(* Tree Walker, snapshot mode: get_tree / get_tree_node *)

IndexTreeNode_always_some(max_offset, free_space, offset, block_num, right, is_leaf) ==
    [max_offset |-> max_offset,
     free_space |-> free_space,
     offset     |-> offset,
     block_num  |-> block_num,
     right_link |-> IF right = InvalidBlockNumber THEN None ELSE Some(right),
     children   |-> Some(<< >>)]

\* IndexTreeNode::new
IndexTreeNode_new(max_offset, free_space, offset, block_num, right, is_leaf) ==
    [max_offset |-> max_offset,
     free_space |-> free_space,
     offset     |-> offset,
     block_num  |-> block_num,
     right_link |-> IF right = InvalidBlockNumber THEN None ELSE Some(right),
     children   |-> IF is_leaf THEN None ELSE Some(<< >>)]

\* IndexTreeNode::is_leaf
IndexTreeNode_is_leaf(node) == ~IsSome(node.children)

RecurseInclusive(max, level) ==
    IF IsSome(max) THEN Unwrap(max) >= level ELSE TRUE

RecurseAlways(max, level) == TRUE

\* let recurse = match max_level { Some(max) => max > level, None => true };
Recurse(max, level) ==
    IF IsSome(max) THEN Unwrap(max) > level ELSE TRUE

\* get_tree_node up to its loop: the page is read and the node built
get_tree_node_enter(level, blk, offset) ==
    LET page == store[blk]
        max_offset == page_max_offset_number(page)
        free_space == PageGetFreeSpace(page)
        is_leaf == GistPage_is_leaf(page)
    IN  [level      |-> level,
         blk        |-> blk,
         max_offset |-> max_offset,
         is_leaf    |-> is_leaf,
         i          |-> FirstOffsetNumber,
         node       |-> IndexTreeNode_new(max_offset, free_space, offset, blk,
                                          GistPage_right_link(page), is_leaf)]

\* the loop of get_tree_node has a slot left to descend into
get_tree_node_looping(f) ==
    /\ ~f.is_leaf
    /\ Recurse(max_level, f.level)
    /\ f.i <= f.max_offset

\* the child page number read from slot i of page blk
child_block(blk, i) ==
    LET page == store[blk]
    IN  item_ptr_get_blk_num(page_get_item(page, item_id(page, i)))

Top == stack[Len(stack)]
Pop == SubSeq(stack, 1, Len(stack) - 1)

\* pub fn get_tree: the root activation starts
get_tree(ml) ==
    /\ pc = "idle"
    /\ pc' = "running"
    /\ op' = "get_tree"
    /\ max_level' = ml
    /\ stack' = <<get_tree_node_enter(0, GIST_ROOT_BLKNO, 0)>>
    /\ pinned' = Buffer_new(pinned, GIST_ROOT_BLKNO)
    /\ acquired' = 1
    /\ released' = 0
    /\ UNCHANGED <<store, stats, tree, out, probe>>

\* one turn of the loop: decode the downlink and enter the child's activation
get_tree_node_call ==
    /\ pc = "running" /\ op = "get_tree"
    /\ get_tree_node_looping(Top)
    /\ Len(stack) < MaxStack
    /\ LET cblk == child_block(Top.blk, Top.i)
       IN  /\ stack' = Append(stack, get_tree_node_enter(Top.level + 1, cblk, Top.i))
           /\ pinned' = Buffer_new(pinned, cblk)
           /\ acquired' = acquired + 1
    /\ UNCHANGED <<store, op, max_level, pc, stats, tree, out, released, probe>>

\* the activation returns its node: the page is released, the caller pushes
\* the node onto its children, or get_tree wraps it as the result
get_tree_node_return ==
    /\ pc = "running" /\ op = "get_tree"
    /\ ~get_tree_node_looping(Top)
    /\ pinned' = Buffer_drop(pinned, Top.blk)
    /\ released' = released + 1
    /\ IF Len(stack) = 1
       THEN /\ tree' = Some(Top.node)
            /\ stack' = << >>
            /\ pc' = "done"
       ELSE /\ stack' = [Pop EXCEPT ![Len(stack) - 1] =
                            [@ EXCEPT !.node.children =
                                          Some(Append(Unwrap(@), Top.node)),
                                      !.i = @ + 1]]
            /\ UNCHANGED <<tree, pc>>
    /\ UNCHANGED <<store, op, max_level, stats, out, acquired, probe>>

---------------------------------------------------------------------------
(* Tree Walker, stats mode: stats / stats_inner *)

\* Stats::default
Stats_default ==
    [level |-> 0, num_pages |-> 0, num_leaf_pages |-> 0, num_tuple |-> 0,
     num_invalid_tuple |-> 0, num_leaf_tuple |-> 0, tuple_size |-> 0,
     leaf_tuple_size |-> 0, total_size |-> 0]

stats_visit_leaf_only(st, level, page) ==
    LET max_offset == page_max_offset_number(page)
        tuple_size == TupleSize(page)
        is_leaf == GistPage_is_leaf(page)
    IN  [st EXCEPT
            !.num_pages = @ + 1,
            !.tuple_size = @ + tuple_size,
            !.total_size = @ + BLCKSZ,
            !.num_tuple = IF is_leaf THEN @ + max_offset ELSE @,
            !.level = IF level > @ THEN level ELSE @,
            !.num_leaf_pages = IF is_leaf THEN @ + 1 ELSE @,
            !.leaf_tuple_size = IF is_leaf THEN @ + tuple_size ELSE @,
            !.num_leaf_tuple = IF is_leaf THEN @ + max_offset ELSE @]

stats_visit_level_count(st, level, page) ==
    LET max_offset == page_max_offset_number(page)
        tuple_size == TupleSize(page)
        is_leaf == GistPage_is_leaf(page)
    IN  [st EXCEPT
            !.num_pages = @ + 1,
            !.tuple_size = @ + tuple_size,
            !.total_size = @ + BLCKSZ,
            !.num_tuple = @ + max_offset,
            !.level = IF level + 1 > @ THEN level + 1 ELSE @,
            !.num_leaf_pages = IF is_leaf THEN @ + 1 ELSE @,
            !.leaf_tuple_size = IF is_leaf THEN @ + tuple_size ELSE @,
            !.num_leaf_tuple = IF is_leaf THEN @ + max_offset ELSE @]

\* stats_inner up to its loop: the page is read and added to the totals
stats_visit(st, level, page) ==
    LET max_offset == page_max_offset_number(page)
        tuple_size == TupleSize(page)
        is_leaf == GistPage_is_leaf(page)
    IN  [st EXCEPT
            !.num_pages = @ + 1,
            !.tuple_size = @ + tuple_size,
            !.total_size = @ + BLCKSZ,
            !.num_tuple = @ + max_offset,
            !.level = IF level > @ THEN level ELSE @,
            !.num_leaf_pages = IF is_leaf THEN @ + 1 ELSE @,
            !.leaf_tuple_size = IF is_leaf THEN @ + tuple_size ELSE @,
            !.num_leaf_tuple = IF is_leaf THEN @ + max_offset ELSE @]

count_invalid_negated(st, tuple) ==
    IF ~is_invalid(tuple) THEN [st EXCEPT !.num_invalid_tuple = @ + 1] ELSE st

\* if which.is_invalid() { stats.num_invalid_tuple += 1; }
count_invalid(st, tuple) ==
    IF is_invalid(tuple) THEN [st EXCEPT !.num_invalid_tuple = @ + 1] ELSE st

stats_inner_enter(level, blk) ==
    LET page == store[blk]
    IN  [level      |-> level,
         blk        |-> blk,
         max_offset |-> page_max_offset_number(page),
         is_leaf    |-> GistPage_is_leaf(page),
         i          |-> FirstOffsetNumber]

\* the loop of stats_inner has a slot left: max_level is never consulted
stats_inner_looping(f) ==
    /\ ~f.is_leaf
    /\ f.i <= f.max_offset

\* pub fn stats: a fresh accumulator, the root activation starts
stats_call(ml) ==
    /\ pc = "idle"
    /\ pc' = "running"
    /\ op' = "stats"
    /\ max_level' = ml
    /\ stack' = <<stats_inner_enter(0, GIST_ROOT_BLKNO)>>
    /\ stats' = stats_visit(Stats_default, 0, store[GIST_ROOT_BLKNO])
    /\ pinned' = Buffer_new(pinned, GIST_ROOT_BLKNO)
    /\ acquired' = 1
    /\ released' = 0
    /\ UNCHANGED <<store, tree, out, probe>>

stats_inner_call ==
    /\ pc = "running" /\ op = "stats"
    /\ stats_inner_looping(Top)
    /\ Len(stack) < MaxStack
    /\ LET page == store[Top.blk]
           which == page_get_item(page, item_id(page, Top.i))
           cblk == item_ptr_get_blk_num(which)
       IN  /\ stack' = Append(stack, stats_inner_enter(Top.level + 1, cblk))
           /\ stats' = stats_visit(count_invalid(stats, which),
                                   Top.level + 1, store[cblk])
           /\ pinned' = Buffer_new(pinned, cblk)
           /\ acquired' = acquired + 1
    /\ UNCHANGED <<store, op, max_level, pc, tree, out, released, probe>>

stats_inner_return ==
    /\ pc = "running" /\ op = "stats"
    /\ ~stats_inner_looping(Top)
    /\ pinned' = Buffer_drop(pinned, Top.blk)
    /\ released' = released + 1
    /\ IF Len(stack) = 1
       THEN /\ stack' = << >>
            /\ pc' = "done"
       ELSE /\ stack' = [Pop EXCEPT ![Len(stack) - 1].i = @ + 1]
            /\ pc' = pc
    /\ UNCHANGED <<store, op, max_level, stats, tree, out, acquired, probe>>

---------------------------------------------------------------------------
(* dump_tree: the walk that writes one line per page *)

\* the line dump_tree writes for a page
dump_line(level, blk, coff) ==
    LET page == store[blk]
        free_space == PageGetFreeSpace(page)
    IN  [indent     |-> level * 4,
         coff       |-> coff,
         level      |-> level,
         blk        |-> blk,
         max_offset |-> page_max_offset_number(page),
         free_space |-> free_space,
         coef       |-> [num |-> 100 * (PAGE_SIZE - free_space), den |-> PAGE_SIZE],
         rightlink  |-> page.rightlink,
         sibling    |-> IF page.rightlink = InvalidBlockNumber
                        THEN "InvalidBlockNumber" ELSE "OK"]

dump_tree_enter(level, blk) ==
    LET page == store[blk]
    IN  [level      |-> level,
         blk        |-> blk,
         max_offset |-> page_max_offset_number(page),
         is_leaf    |-> GistPage_is_leaf(page),
         i          |-> 1]

\* !gist_page_is_leaf(opaque) && (max_level.is_none() || level < max_level.unwrap())
dump_tree_looping(f) ==
    /\ ~f.is_leaf
    /\ (IF IsSome(max_level) THEN f.level < Unwrap(max_level) ELSE TRUE)
    /\ f.i <= f.max_offset

dump_tree(ml) ==
    /\ pc = "idle"
    /\ pc' = "running"
    /\ op' = "dump_tree"
    /\ max_level' = ml
    /\ stack' = <<dump_tree_enter(0, GIST_ROOT_BLKNO)>>
    /\ out' = <<dump_line(0, GIST_ROOT_BLKNO, 0)>>
    /\ pinned' = Buffer_new(pinned, GIST_ROOT_BLKNO)
    /\ acquired' = 1
    /\ released' = 0
    /\ UNCHANGED <<store, stats, tree, probe>>

dump_tree_call ==
    /\ pc = "running" /\ op = "dump_tree"
    /\ dump_tree_looping(Top)
    /\ Len(stack) < MaxStack
    /\ LET cblk == child_block(Top.blk, Top.i)
       IN  /\ stack' = Append(stack, dump_tree_enter(Top.level + 1, cblk))
           /\ out' = Append(out, dump_line(Top.level + 1, cblk, Top.i))
           /\ pinned' = Buffer_new(pinned, cblk)
           /\ acquired' = acquired + 1
    /\ UNCHANGED <<store, op, max_level, pc, stats, tree, released, probe>>

dump_tree_return ==
    /\ pc = "running" /\ op = "dump_tree"
    /\ ~dump_tree_looping(Top)
    /\ pinned' = Buffer_drop(pinned, Top.blk)
    /\ released' = released + 1
    /\ IF Len(stack) = 1
       THEN /\ stack' = << >>
            /\ pc' = "done"
       ELSE /\ stack' = [Pop EXCEPT ![Len(stack) - 1].i = @ + 1]
            /\ pc' = pc
    /\ UNCHANGED <<store, op, max_level, stats, tree, out, acquired, probe>>

---------------------------------------------------------------------------
(* A walk that would descend past MaxStack activations overflows the stack *)

Looping(f) ==
    CASE op = "get_tree"  -> get_tree_node_looping(f)
      [] op = "stats"     -> stats_inner_looping(f)
      [] op = "dump_tree" -> dump_tree_looping(f)

stack_overflow ==
    /\ pc = "running"
    /\ Looping(Top)
    /\ Len(stack) >= MaxStack
    /\ pc' = "overflow"
    /\ UNCHANGED <<store, op, max_level, stack, stats, tree, out, pinned,
                   acquired, released, probe>>

---------------------------------------------------------------------------
(* Specifications *)

MaxLevels == {None} \cup {Some(d) : d \in 0..MaxDepthBound}

Init ==
    /\ store \in Stores
    /\ op = "none"
    /\ max_level = None
    /\ pc = "idle"
    /\ stack = << >>
    /\ stats = Stats_default
    /\ tree = None
    /\ out = << >>
    /\ pinned = [p \in Pages |-> 0]
    /\ acquired = 0
    /\ released = 0
    /\ probe = None

Next ==
    \/ \E ml \in MaxLevels : get_tree(ml)
    \/ get_tree_node_call
    \/ get_tree_node_return
    \/ \E ml \in MaxLevels : stats_call(ml)
    \/ stats_inner_call
    \/ stats_inner_return
    \/ \E ml \in MaxLevels : dump_tree(ml)
    \/ dump_tree_call
    \/ dump_tree_return
    \/ stack_overflow

Spec == Init /\ [][Next]_vars

FairSpec == Spec /\ WF_vars(Next)

\* The inspector is used again: the values it returned stay with the caller.
inspect_again ==
    /\ pc = "done"
    /\ pc' = "idle"
    /\ UNCHANGED <<store, op, max_level, stack, stats, tree, out, pinned,
                   acquired, released, probe>>

\* unbounded get_tree and stats calls, one after the other, on one index
NextSeq ==
    \/ get_tree(None)
    \/ get_tree_node_call
    \/ get_tree_node_return
    \/ stats_call(None)
    \/ stats_inner_call
    \/ stats_inner_return
    \/ stack_overflow
    \/ inspect_again

SpecSeq == Init /\ [][NextSeq]_vars

---------------------------------------------------------------------------
(* The page-level functions, applied to one page at a time *)

\* a block that was never initialised: all bytes zero
ZeroPage ==
    [pd_lower |-> 0, pd_upper |-> 0, pd_special |-> 0, flags |-> 0,
     rightlink |-> 0, pd_linp |-> << >>, items |-> << >>]

\* an initialised page with n slots whose items reach down to `upper`
ProbePages ==
    {ZeroPage} \cup
    UNION {LET g == GistPage(fl, InvalidBlockNumber, [i \in 1..n |-> LeafTuple(i)])
           IN  {[g EXCEPT !.pd_upper = u] :
                   u \in {g.pd_lower,
                          g.pd_lower + SizeOfItemIdData - 1,
                          g.pd_lower + SizeOfItemIdData,
                          g.pd_upper}} :
           n \in 0..MaxSlots, fl \in {0, F_LEAF}}

InitPage ==
    /\ store \in [{GIST_ROOT_BLKNO} -> ProbePages]
    /\ op = "none"
    /\ max_level = None
    /\ pc = "probe"
    /\ stack = << >>
    /\ stats = Stats_default
    /\ tree = None
    /\ out = << >>
    /\ pinned = [p \in Pages |-> 0]
    /\ acquired = 0
    /\ released = 0
    /\ probe = None

ProbedPage == store[GIST_ROOT_BLKNO]

Probed(fn, pos, result) ==
    /\ pc = "probe"
    /\ probe' = Some([fn |-> fn, pos |-> pos, result |-> result])
    /\ UNCHANGED <<store, op, max_level, pc, stack, stats, tree, out, pinned,
                   acquired, released>>

probe_max_offset == Probed("max_offset", 0, page_max_offset_number(ProbedPage))

probe_item_id ==
    \E pos \in 0..(MaxSlots + 1) :
        \E r \in page_get_item_id(ProbedPage, pos) : Probed("item_id", pos, r)

probe_free_space == Probed("free_space", 0, PageGetFreeSpace(ProbedPage))

probe_occupied == Probed("occupied", 0, occupied(PageGetFreeSpace(ProbedPage)))

probe_stats_visit == Probed("stats_visit", 0, stats_visit(Stats_default, 0, ProbedPage))

NextPage ==
    \/ probe_max_offset
    \/ probe_item_id
    \/ probe_free_space
    \/ probe_occupied
    \/ probe_stats_visit

SpecPage == InitPage /\ [][NextPage]_vars

---------------------------------------------------------------------------
(* The structure of an index file, as the downlinks of its pages define it *)

IsInternal(p) == ~GistPage_is_leaf(store[p])

SlotsOf(p) == 1..page_max_offset_number(store[p])

RECURSIVE ReachFrom(_, _)
ReachFrom(seen, fuel) ==
    LET next == seen \cup UNION {{child_block(p, i) : i \in SlotsOf(p)} :
                                    p \in {q \in seen : IsInternal(q)}}
    IN  IF fuel = 0 \/ next = seen THEN seen ELSE ReachFrom(next, fuel - 1)

\* the pages a walk from the root can reach
Reach == ReachFrom({GIST_ROOT_BLKNO}, MaxPage + 1)

\* the downlinks of the reachable internal pages: <<page, slot>>
Edges == UNION {{<<p, i>> : i \in SlotsOf(p)} : p \in {q \in Reach : IsInternal(q)}}

EdgeTuple(e) == page_get_item(store[e[1]], item_id(store[e[1]], e[2]))

\* every reachable page has one downlink leading to it, the root none
IsTree ==
    /\ \A e \in Edges : child_block(e[1], e[2]) # GIST_ROOT_BLKNO
    /\ \A e1, e2 \in Edges :
          e1 # e2 => child_block(e1[1], e1[2]) # child_block(e2[1], e2[2])

RECURSIVE HasPath(_, _)
HasPath(p, n) ==
    IF n = 0 THEN TRUE
    ELSE IF IsInternal(p)
         THEN \E i \in SlotsOf(p) : HasPath(child_block(p, i), n - 1)
         ELSE FALSE

\* no walk from the root comes back to a page it is in
Acyclic == ~HasPath(GIST_ROOT_BLKNO, MaxPage + 1)

\* the slot counts of the pages in S, added up
RECURSIVE SumSlots(_)
SumSlots(S) ==
    IF S = {} THEN 0
    ELSE LET p == CHOOSE x \in S : TRUE
         IN  page_max_offset_number(store[p]) + SumSlots(S \ {p})

\* the page a path of slot positions leads to from the root
RECURSIVE PageAt(_)
PageAt(path) ==
    IF path = << >> THEN GIST_ROOT_BLKNO
    ELSE child_block(PageAt(SubSeq(path, 1, Len(path) - 1)), path[Len(path)])

(* A returned tree, flattened: its nodes with the slot path leading to each *)

Kids(node) == IF IsSome(node.children) THEN Unwrap(node.children) ELSE << >>

RECURSIVE Flatten(_, _)
Flatten(node, path) ==
    {[path |-> path, node |-> node]} \cup
    UNION {Flatten(Kids(node)[i], Append(path, i)) : i \in 1..Len(Kids(node))}

TreeNodes == Flatten(Unwrap(tree), << >>)

\* the node's scalar fields are those of the page at its path
FieldsFilled(x) ==
    LET page == store[PageAt(x.path)]
    IN  /\ x.node.block_num = PageAt(x.path)
        /\ x.node.max_offset = page_max_offset_number(page)
        /\ x.node.free_space = PageGetFreeSpace(page)
        /\ x.node.right_link = IF page.rightlink = InvalidBlockNumber
                               THEN None ELSE Some(page.rightlink)

MaxOf(S) == CHOOSE m \in S : \A x \in S : x <= m

\* the buffers held on the pages in S, added up
RECURSIVE SumPinned(_)
SumPinned(S) ==
    IF S = {} THEN 0
    ELSE LET p == CHOOSE x \in S : TRUE
         IN  pinned[p] + SumPinned(S \ {p})

---------------------------------------------------------------------------
(* Claims *)

\* C1: stats(Some(D)) visits no page at depth greater than D, so
\* stats(Some(0)) reports level 0 and one page whatever the root is.
C1_StatsObeysDepthBound ==
    (pc = "done" /\ op = "stats" /\ IsSome(max_level)) =>
        /\ stats.level <= Unwrap(max_level)
        /\ (Unwrap(max_level) = 0 => stats.num_pages = 1)

\* C2: the tree get_tree(Some(D)) returns has no node deeper than D; the
\* nodes at depth D are there, with their page's fields, and have no
\* children; above depth D every internal node has all its children.
C2_TreeObeysDepthBound ==
    (pc = "done" /\ op = "get_tree" /\ IsSome(max_level)) =>
        LET D == Unwrap(max_level)
        IN  /\ IsSome(tree)
            /\ \A x \in TreeNodes :
                  /\ Len(x.path) <= D
                  /\ FieldsFilled(x)
                  /\ Len(x.path) = D => Kids(x.node) = << >>
                  /\ (Len(x.path) < D /\ IsInternal(x.node.block_num))
                        => Len(Kids(x.node)) = x.node.max_offset
            /\ D = 0 => TreeNodes = {[path |-> << >>, node |-> Unwrap(tree)]}

\* a tree cut at depth 1 below which the index goes on
C2_Witness ==
    /\ pc = "done" /\ op = "get_tree" /\ max_level = Some(1)
    /\ \E x \in TreeNodes :
          /\ Len(x.path) = 1
          /\ x.node.max_offset > 0
          /\ x.node.children = Some(<< >>)

\* C3: after unbounded calls of both, stats.level is the depth of the deepest
\* node of the tree and stats.num_pages the number of its nodes.
C3_StatsAgreesWithTree ==
    (pc \in {"done", "idle"} /\ IsSome(tree) /\ stats.num_pages > 0) =>
        /\ stats.level = MaxOf({Len(x.path) : x \in TreeNodes})
        /\ stats.num_pages = Cardinality(TreeNodes)

C3_Witness ==
    /\ pc = "done" /\ IsSome(tree)
    /\ stats.level = 2 /\ stats.num_pages = 3

\* C4: on a tree, stats(None) returns the sums over the pages of the tree.
C4_StatsTotals ==
    (pc = "done" /\ op = "stats" /\ max_level = None /\ IsTree) =>
        LET leaves == {p \in Reach : ~IsInternal(p)}
            depth(p) == CHOOSE n \in 0..MaxPage :
                           \E path \in [1..n -> 1..MaxSlots] :
                               /\ \A k \in 1..n :
                                     /\ IsInternal(PageAt(SubSeq(path, 1, k - 1)))
                                     /\ path[k] \in SlotsOf(PageAt(SubSeq(path, 1, k - 1)))
                               /\ PageAt(path) = p
        IN  /\ stats.num_pages = Cardinality(Reach)
            /\ stats.num_leaf_pages = Cardinality(leaves)
            /\ stats.num_tuple = SumSlots(Reach)
            /\ stats.num_leaf_tuple = SumSlots(leaves)
            /\ stats.level = MaxOf({depth(p) : p \in Reach})
            /\ stats.total_size = BLCKSZ * stats.num_pages

\* an internal root with two leaf children of one and two entries
C4_Witness ==
    /\ pc = "done" /\ op = "stats" /\ max_level = None /\ IsTree
    /\ stats.num_pages = 3 /\ stats.num_leaf_pages = 2
    /\ stats.num_tuple = 2 + 1 + 2 /\ stats.num_leaf_tuple = 3
    /\ stats.level = 1

\* C5: on a tree, stats(None).num_invalid_tuple is the number of internal
\* slots marked invalid; marked leaf entries are not counted, and the child
\* of a marked slot is visited like any other.
C5_InvalidCount ==
    (pc = "done" /\ op = "stats" /\ max_level = None /\ IsTree) =>
        /\ stats.num_invalid_tuple =
              Cardinality({e \in Edges : is_invalid(EdgeTuple(e))})
        /\ stats.num_pages = Cardinality(Reach)

\* two marked downlinks on two pages, and a leaf with a marked entry below
C5_Witness ==
    /\ pc = "done" /\ op = "stats" /\ max_level = None /\ IsTree
    /\ stats.num_invalid_tuple = 2
    /\ \E e1, e2 \in Edges :
          /\ e1[1] # e2[1]
          /\ is_invalid(EdgeTuple(e1)) /\ is_invalid(EdgeTuple(e2))
    /\ \E p \in Reach :
          /\ ~IsInternal(p)
          /\ \E i \in SlotsOf(p) : is_invalid(page_get_item(store[p], item_id(store[p], i)))

\* C6: a page's free space lies in 0..PAGE_SIZE, the node's occupied fraction
\* in [0,1], and the bytes stats adds as occupied are not negative (the u64
\* subtraction does not wrap) and not more than the bytes it adds as capacity.
C6_OccupiedWithinCapacity ==
    IsSome(probe) =>
        LET r == Unwrap(probe).result
            fn == Unwrap(probe).fn
        IN  /\ fn = "free_space" => (0 <= r /\ r <= PAGE_SIZE)
            /\ fn = "occupied" => (0 <= r.num /\ r.num <= r.den)
            /\ fn = "stats_visit" =>
                  /\ 0 <= r.tuple_size
                  /\ r.tuple_size = PAGE_SIZE - PageGetFreeSpace(ProbedPage)
                  /\ r.tuple_size <= r.total_size

\* an empty page: the most free space a page of the index can have
C6_Witness ==
    /\ IsSome(probe)
    /\ Unwrap(probe).fn = "stats_visit"
    /\ ProbedPage.pd_lower = SizeOfPageHeaderData
    /\ ProbedPage.pd_upper = ProbedPage.pd_special
    /\ Unwrap(probe).result.tuple_size = PAGE_SIZE - PageGetFreeSpace(ProbedPage)

\* C7: the buffers held are buffers of pages on the current recursion path,
\* at most one per activation (depth + 1 in all); what was released was
\* acquired before; and when the call has returned every buffer acquired has
\* been released and no page is held.
C7_BuffersScoped ==
    LET held == acquired - released
    IN  /\ \A p \in Pages :
              /\ 0 <= pinned[p]
              /\ pinned[p] <= Cardinality({k \in 1..Len(stack) : stack[k].blk = p})
        /\ \A k \in 1..Len(stack) : stack[k].level = k - 1
        /\ 0 <= held
        /\ pc = "running" => held <= Top.level + 1
        /\ pc = "done" => (held = 0 /\ \A p \in Pages : pinned[p] = 0)
        /\ pc \in {"running", "done"} =>
              held = SumPinned(Pages)

\* three activations deep, the three pages of the path held once each
C7_Witness ==
    /\ pc = "running"
    /\ Len(stack) = 3
    /\ \A p \in Pages : pinned[p] = 1
    /\ acquired = 3 /\ released = 0

\* C8: slot lookup fails for every position outside 1..=maxSlot and returns
\* the stored slot otherwise; maxSlot is (pd_lower - header) / slot size,
\* 0 when pd_lower <= header.
C8_SlotLookupChecked ==
    IsSome(probe) =>
        LET r == Unwrap(probe).result
            fn == Unwrap(probe).fn
            pos == Unwrap(probe).pos
            lower == ProbedPage.pd_lower
            maxSlot == IF lower <= SizeOfPageHeaderData THEN 0
                       ELSE (lower - SizeOfPageHeaderData) \div SizeOfItemIdData
        IN  /\ fn = "max_offset" => r = maxSlot
            /\ fn = "item_id" =>
                  IF pos \in 1..maxSlot
                  THEN r = [kind |-> "ok", iid |-> ProbedPage.pd_linp[pos]]
                  ELSE r.kind = "panic"

\* C9: in the tree get_tree returns the root has slot position 0 and page 0;
\* a node's children are absent iff its page is a leaf; with no depth bound an
\* internal node with m slots has m children, the i-th with slot position i
\* and the page number of the parent's slot i; a node cut off by the depth
\* bound has a present, empty child sequence.
C9_TreeShape ==
    (pc = "done" /\ op = "get_tree") =>
        /\ IsSome(tree)
        /\ Unwrap(tree).offset = 0
        /\ Unwrap(tree).block_num = GIST_ROOT_BLKNO
        /\ \A x \in TreeNodes :
              LET n == x.node
                  kids == Kids(n)
              IN  /\ IndexTreeNode_is_leaf(n) <=> store[n.block_num].flags = F_LEAF
                  /\ (max_level = None /\ ~IndexTreeNode_is_leaf(n)) =>
                        /\ Len(kids) = page_max_offset_number(store[n.block_num])
                        /\ \A i \in 1..Len(kids) :
                              /\ kids[i].offset = i
                              /\ kids[i].block_num = child_block(n.block_num, i)
                  /\ (IsSome(max_level) /\ store[n.block_num].flags # F_LEAF) =>
                        (Len(x.path) = Unwrap(max_level) => n.children = Some(<< >>))

\* a root whose slots lead to page 2, then page 1, one of them an internal
\* page with no slots
C9_Witness ==
    /\ pc = "done" /\ op = "get_tree" /\ max_level = None /\ IsTree
    /\ LET kids == Kids(Unwrap(tree))
       IN  /\ Len(kids) = 2
           /\ kids[1].block_num = 2 /\ kids[2].block_num = 1
           /\ \E i \in 1..2 : kids[i].children = Some(<< >>)

\* the calls that are to return: any call with no bound on an index without
\* a cycle, get_tree and dump_tree with a bound on any index
Terminates ==
    IF IsSome(max_level) THEN op \in {"get_tree", "dump_tree"} ELSE Acyclic

\* C10: get_tree, stats and dump_tree without a bound return on every index
\* that has no cycle; get_tree and dump_tree with a bound return on every
\* index, cycle or not.
C10_Termination == (pc = "running" /\ Terminates) ~> (pc = "done")

\* a bounded get_tree that returned from an index with a cycle
C10_Witness ==
    /\ pc = "done" /\ op = "get_tree" /\ max_level = Some(MaxDepthBound)
    /\ ~Acyclic
    /\ Cardinality(TreeNodes) > MaxPage + 1
=============================================================================
